---- MODULE Spec2Model ----
(***************************************************************************)
(* Model of path-rooter (src/src/rooter.js): the Rooter class, a root      *)
(* directory plus six methods built on path.resolve, array-flatten,        *)
(* globby.sync, node's require and import-fresh.                           *)
(*                                                                         *)
(* A string is a sequence of one-character strings, so that the regular    *)
(* expression of Rooter.resolve and the scanning done by path.resolve are  *)
(* computed character by character.  A fragment handed to a method is a    *)
(* tagged value: Str(s) for a string, NonStr for any value that is not a   *)
(* string (a number, undefined, ...).  An array of patterns is Arr(items). *)
(***************************************************************************)
EXTENDS Integers, Sequences, FiniteSets, TLC

VARIABLES ROOT, disk, cache, evalCount, hist, last, pc, input

vars == <<ROOT, disk, cache, evalCount, hist, last, pc, input>>

(***************************************************************************)
(* Values                                                                  *)
(***************************************************************************)
Str(s) == [isStr |-> TRUE, chars |-> s]

NonStr == [isStr |-> FALSE, chars |-> <<>>]

Arr(items) == [items |-> items]

IsArr(t) == "items" \in DOMAIN t

None == [none |-> TRUE]

(***************************************************************************)
(* Bounds of the enumerated inputs                                         *)
(***************************************************************************)
\* longest fragment string drawn for resolve, in characters
MaxFragLen == 2

\* largest number of string fragments drawn for one resolve call
MaxFrags == 2

\* largest number of nodes (strings and arrays) in one find argument list
MaxNodes == 4

\* largest number of module evaluations in one behaviour
MaxEvals == 2

(***************************************************************************)
(* node's path module (posix)                                              *)
(***************************************************************************)
\* process.cwd(), used by path.resolve when no argument is absolute
Cwd == <<"/", "c">>

RECURSIVE Split(_, _, _)
\* the non-empty segments of s between separators, left to right
Split(s, cur, acc) ==
    IF s = <<>>
    THEN IF cur = <<>> THEN acc ELSE Append(acc, cur)
    ELSE IF Head(s) = "/"
         THEN Split(Tail(s), <<>>, IF cur = <<>> THEN acc ELSE Append(acc, cur))
         ELSE Split(Tail(s), Append(cur, Head(s)), acc)

Segments(s) == Split(s, <<>>, <<>>)

RECURSIVE NormalizeSegs(_, _)
\* normalizeString of an absolute path: "." is skipped, ".." drops the last
\* segment kept so far and is ignored at the root
NormalizeSegs(segs, acc) ==
    IF segs = <<>> THEN acc
    ELSE LET s == Head(segs) IN
         IF s = <<".">> THEN NormalizeSegs(Tail(segs), acc)
         ELSE IF s = <<".", ".">>
              THEN NormalizeSegs(Tail(segs),
                                 IF acc = <<>> THEN acc ELSE SubSeq(acc, 1, Len(acc) - 1))
              ELSE NormalizeSegs(Tail(segs), Append(acc, s))

RECURSIVE JoinSegs(_)
JoinSegs(segs) ==
    IF segs = <<>> THEN <<>> ELSE <<"/">> \o Head(segs) \o JoinSegs(Tail(segs))

\* the absolute path string made of the segments segs
AbsPath(segs) == IF segs = <<>> THEN <<"/">> ELSE JoinSegs(segs)

Ok(v) == [ok |-> TRUE, val |-> v, err |-> "none"]

Throw(e) == [ok |-> FALSE, val |-> <<>>, err |-> e]

RECURSIVE ResolveScan(_, _, _)
\* the right-to-left loop of path.resolve: each argument visited is
\* validated, an empty one is skipped, and the loop stops at the first
\* absolute one; arguments left of it are never looked at
ResolveScan(args, i, acc) ==
    IF i = 0
    THEN Ok(Cwd \o <<"/">> \o acc)
    ELSE LET p == args[i] IN
         IF ~p.isStr THEN Throw("TypeError")
         ELSE IF p.chars = <<>> THEN ResolveScan(args, i - 1, acc)
         ELSE IF Head(p.chars) = "/" THEN Ok(p.chars \o <<"/">> \o acc)
         ELSE ResolveScan(args, i - 1, p.chars \o <<"/">> \o acc)

\* path.resolve(...args)
PathResolve(args) ==
    LET r == ResolveScan(args, Len(args), <<>>) IN
    IF r.ok THEN Ok(AbsPath(NormalizeSegs(Segments(r.val), <<>>))) ELSE r

(***************************************************************************)
(* Rooter                                                                  *)
(***************************************************************************)
\* new Rooter(basedir): this.ROOT = path.resolve(basedir)
Constructor(basedir) == PathResolve(<<Str(basedir)>>).val

\* route.replace(/^\//g, ""): the pattern is anchored, so one separator goes
StripLeadingSlash(s) == IF s # <<>> /\ Head(s) = "/" THEN Tail(s) ELSE s

\* resolve without the replace call: the first fragment is passed as it is
ResolveNoStrip(root, fragments) ==
    IF fragments = <<>> \/ ~Head(fragments).isStr
    THEN Throw("TypeError")
    ELSE PathResolve(<<Str(root)>> \o fragments)

\* rooter.resolve(route, ...routes), as a method of the rooter rooted at root
Resolve(root, fragments) ==
    IF fragments = <<>> \/ ~Head(fragments).isStr
    THEN Throw("TypeError")
    ELSE PathResolve(<<Str(root), Str(StripLeadingSlash(Head(fragments).chars))>>
                     \o Tail(fragments))

(***************************************************************************)
(* The file system and node's module cache                                 *)
(***************************************************************************)
FileA == <<"/", "r", "/", "a">>

FileB == <<"/", "r", "/", "b">>

\* the files that exist, in the order a directory listing yields them
FileOrder == <<FileA, FileB>>

Files == {FileOrder[i] : i \in DOMAIN FileOrder}

\* what evaluating a file does: export one of two values, or throw
Contents == {"v1", "v2", "throws"}

\* what the calls made so far did to each file.  req: the evaluation (id) that
\* made the value the latest require of the file returned, 0 when there was
\* none or the file was rewritten since.  fresh: an uncached load of the file
\* was made since that require.  exec: the evaluation that made the value the
\* latest such uncached load returned, 0 when there was none or it threw.
NoHist ==
    [req |-> [f \in Files |-> 0], exec |-> [f \in Files |-> 0],
     fresh |-> [f \in Files |-> FALSE]]

EmptyCache == [f \in Files |-> None]

InitDisk == [f \in Files |-> "v1"]

NoCall == [op |-> "none"]

(***************************************************************************)
(* array-flatten and globby                                                *)
(***************************************************************************)
RECURSIVE FlattenShallow(_)
\* a flatten that opens one level of arrays only and drops what is nested
\* deeper
FlattenShallow(items) ==
    IF items = <<>> THEN <<>>
    ELSE LET h == Head(items) IN
         (IF IsArr(h) THEN SelectSeq(h.items, LAMBDA t : ~IsArr(t)) ELSE <<h>>)
         \o FlattenShallow(Tail(items))

RECURSIVE Flatten(_)
\* flatten(patterns): depth first, left to right, arrays of any depth opened
Flatten(items) ==
    IF items = <<>> THEN <<>>
    ELSE LET h == Head(items) IN
         (IF IsArr(h) THEN Flatten(h.items) ELSE <<h>>) \o Flatten(Tail(items))

\* a pattern segment matches a path segment when equal, or when it is "*"
SegmentMatches(ps, fs) == ps = <<"*">> \/ ps = fs

\* the glob matcher on one absolute pattern and one file
Matches(pattern, file) ==
    LET ps == Segments(pattern)
        fs == Segments(file)
    IN  /\ Len(ps) = Len(fs)
        /\ \A i \in DOMAIN ps : SegmentMatches(ps[i], fs[i])

RECURSIVE Dedup(_, _)
Dedup(l, acc) ==
    IF l = <<>> THEN acc
    ELSE Dedup(Tail(l),
               IF \E i \in DOMAIN acc : acc[i] = Head(l) THEN acc ELSE Append(acc, Head(l)))

RECURSIVE GlobEach(_)
GlobEach(patterns) ==
    IF patterns = <<>> THEN <<>>
    ELSE SelectSeq(FileOrder, LAMBDA f : Matches(Head(patterns), f))
         \o GlobEach(Tail(patterns))

RECURSIVE GlobEachNoNull(_)
\* a matcher that hands a pattern back when nothing matches it
GlobEachNoNull(patterns) ==
    IF patterns = <<>> THEN <<>>
    ELSE LET m == SelectSeq(FileOrder, LAMBDA f : Matches(Head(patterns), f)) IN
         (IF m = <<>> THEN <<Head(patterns)>> ELSE m) \o GlobEachNoNull(Tail(patterns))

GlobSyncNoNull(patterns) == Dedup(GlobEachNoNull(patterns), <<>>)

\* globby.sync(patterns): the files matching each pattern, pattern by
\* pattern, each file once; no match gives the empty list
GlobSync(patterns) == Dedup(GlobEach(patterns), <<>>)

RECURSIVE MapResolve(_, _, _)
\* patterns.map(pattern => this.resolve(pattern)); the first throw ends it
MapResolve(root, patterns, acc) ==
    IF patterns = <<>> THEN Ok(acc)
    ELSE LET r == Resolve(root, <<Head(patterns)>>) IN
         IF r.ok THEN MapResolve(root, Tail(patterns), Append(acc, r.val)) ELSE r

\* what rooter.find hands to globby.sync
GlobArgs(root, patterns) == MapResolve(root, Flatten(patterns), <<>>)

\* rooter.find(...patterns)
Find(root, patterns) ==
    LET g == GlobArgs(root, patterns) IN
    IF g.ok THEN Ok(GlobSync(g.val)) ELSE g

(***************************************************************************)
(* node's require and import-fresh                                         *)
(***************************************************************************)
Loaded(v, c, n, loads) ==
    [ok |-> TRUE, val |-> v, err |-> "none", cache |-> c, evalCount |-> n, loads |-> loads]

Failed(e, c, n, loads) ==
    [ok |-> FALSE, val |-> None, err |-> e, cache |-> c, evalCount |-> n, loads |-> loads]

NotFound(c, n, p) == Failed([kind |-> "MODULE_NOT_FOUND", file |-> p], c, n, <<>>)

\* the evaluation of file p, the (n + 1)-th evaluation: the value it exports
\* is a new one and is cached; when it throws, nothing stays in the cache
Evaluate(c, d, n, p) ==
    IF d[p] = "throws"
    THEN Failed([kind |-> "ModuleThrew", file |-> p], [c EXCEPT ![p] = None], n + 1, <<p>>)
    ELSE LET v == [content |-> d[p], id |-> n + 1] IN
         Loaded(v, [c EXCEPT ![p] = v], n + 1, <<p>>)

\* a require that evaluates the file whatever the cache holds
NodeRequireNoCache(c, d, n, p) ==
    IF p \notin Files THEN NotFound(c, n, p) ELSE Evaluate(c, d, n, p)

\* require(p) on module cache c, disk d, n evaluations so far: a cached
\* module is returned as it is; otherwise the file is evaluated
NodeRequire(c, d, n, p) ==
    IF p \notin Files THEN NotFound(c, n, p)
    ELSE IF c[p] # None THEN Loaded(c[p], c, n, <<>>)
    ELSE Evaluate(c, d, n, p)

\* an import that leaves the cache entry in place before requiring
ImportFreshKeepingEntry(c, d, n, p) == NodeRequire(c, d, n, p)

\* an import that puts the entry it found back once the file is evaluated
ImportFreshRestoringEntry(c, d, n, p) ==
    IF p \notin Files THEN NotFound(c, n, p)
    ELSE [Evaluate(c, d, n, p) EXCEPT !.cache = c]

\* importFresh(p): the path is resolved (a missing file throws here), the
\* cache entry is deleted, and the file is required again
ImportFresh(c, d, n, p) ==
    IF p \notin Files THEN NotFound(c, n, p)
    ELSE NodeRequire([c EXCEPT ![p] = None], d, n, p)

Load(fresh, c, d, n, p) == IF fresh THEN ImportFresh(c, d, n, p) ELSE NodeRequire(c, d, n, p)

RECURSIVE LoadEvery(_, _, _, _, _, _, _, _)
LoadEvery(fresh, c, d, n, paths, acc, loads, errs) ==
    IF paths = <<>>
    THEN IF errs = <<>> THEN Loaded(acc, c, n, loads) ELSE Failed(Head(errs), c, n, loads)
    ELSE LET r == Load(fresh, c, d, n, Head(paths)) IN
         LoadEvery(fresh, r.cache, d, r.evalCount, Tail(paths),
                   IF r.ok THEN Append(acc, r.val) ELSE acc, loads \o r.loads,
                   IF r.ok THEN errs ELSE Append(errs, r.err))

\* a map that loads every path and only then throws the first error met
MapLoadThrowingAtEnd(fresh, c, d, n, paths, acc, loads) ==
    LoadEvery(fresh, c, d, n, paths, acc, loads, <<>>)

RECURSIVE MapLoadReversed(_, _, _, _, _, _, _)
\* a map that loads the last path first
MapLoadReversed(fresh, c, d, n, paths, acc, loads) ==
    IF paths = <<>> THEN Loaded(acc, c, n, loads)
    ELSE LET r == Load(fresh, c, d, n, paths[Len(paths)]) IN
         IF r.ok
         THEN MapLoadReversed(fresh, r.cache, d, r.evalCount,
                              SubSeq(paths, 1, Len(paths) - 1), <<r.val>> \o acc,
                              loads \o r.loads)
         ELSE Failed(r.err, r.cache, r.evalCount, loads \o r.loads)

RECURSIVE MapLoad(_, _, _, _, _, _, _)
\* paths.map(pattern => require(pattern)), or importFresh(pattern): one
\* load after the other in the order of paths; a throw ends the map and no
\* list is returned
MapLoad(fresh, c, d, n, paths, acc, loads) ==
    IF paths = <<>> THEN Loaded(acc, c, n, loads)
    ELSE LET r == Load(fresh, c, d, n, Head(paths)) IN
         IF r.ok
         THEN MapLoad(fresh, r.cache, d, r.evalCount, Tail(paths), Append(acc, r.val),
                      loads \o r.loads)
         ELSE Failed(r.err, r.cache, r.evalCount, loads \o r.loads)

\* rooter.require(...route) and rooter.execute(...route), resolved being
\* what this.resolve(...route) gave: its throw is the call's throw
LoadRoute(fresh, c, d, n, resolved) ==
    IF resolved.ok THEN Load(fresh, c, d, n, resolved.val)
    ELSE Failed([kind |-> resolved.err], c, n, <<>>)

\* rooter.findAndRequire(...patterns) and rooter.findAndExecute(...patterns),
\* found being what this.find(...patterns) gave
LoadFound(fresh, c, d, n, found) ==
    IF found.ok THEN MapLoad(fresh, c, d, n, found.val, <<>>, <<>>)
    ELSE Failed([kind |-> found.err], c, n, <<>>)

(***************************************************************************)
(* resolve as a pure function of the root and the fragments                *)
(***************************************************************************)
FragChars == {"/", "a"}

SeqsUpTo(S, n) == UNION {[1..k -> S] : k \in 0..n}

\* the strings drawn as fragments: every string of separators and letters up
\* to MaxFragLen, and the two dot segments
FragStrings == SeqsUpTo(FragChars, MaxFragLen) \cup {<<".">>, <<".", ".">>}

StringLists == SeqsUpTo({Str(s) : s \in FragStrings}, MaxFrags)

InsertAt(l, i, x) == SubSeq(l, 1, i - 1) \o <<x>> \o SubSeq(l, i, Len(l))

\* the argument lists drawn for resolve: lists of strings, and the same lists
\* with one value that is not a string at any position
FragmentLists ==
    StringLists
    \cup UNION {{InsertAt(l, i, NonStr) : i \in 1..(Len(l) + 1)} : l \in StringLists}

Basedirs == {<<"/">>, <<"/", "r">>, <<"r">>}

InitResolve ==
    /\ input \in [basedir : Basedirs, fragments : FragmentLists]
    /\ ROOT = Constructor(input.basedir)
    /\ disk = InitDisk
    /\ cache = EmptyCache
    /\ evalCount = 0
    /\ hist = NoHist
    /\ last = NoCall
    /\ pc = "start"

ResolveCall(op, fragments) ==
    LET r == Resolve(ROOT, fragments) IN
    [op |-> op, args |-> fragments, ok |-> r.ok, ret |-> r.val, err |-> r.err]

\* rooter.resolve(...input.fragments)
CallResolve ==
    /\ pc = "start"
    /\ last' = ResolveCall("resolve", input.fragments)
    /\ pc' = "resolved"
    /\ UNCHANGED <<ROOT, disk, cache, evalCount, hist, input>>

\* rooter.resolve(p), p the path the first call returned
CallResolveAgain ==
    /\ pc = "resolved"
    /\ last.ok
    /\ last' = ResolveCall("resolveAgain", <<Str(last.ret)>>)
    /\ pc' = "again"
    /\ UNCHANGED <<ROOT, disk, cache, evalCount, hist, input>>

NextResolve == CallResolve \/ CallResolveAgain

SpecResolve == InitResolve /\ [][NextResolve]_vars

(***************************************************************************)
(* find as a pure function of its argument list                            *)
(***************************************************************************)
RootR == Constructor(<<"/", "r">>)

\* the pattern strings drawn as leaves of a find argument list
LeafPatterns == {Str(<<"a">>), Str(<<"/", "*">>)}

RECURSIVE ForestsOf(_), TreesOf(_)
\* the argument lists (sequences of strings and nested arrays) of n nodes
ForestsOf(n) ==
    IF n = 0 THEN {<<>>}
    ELSE UNION {{<<t>> \o f : t \in TreesOf(m), f \in ForestsOf(n - m)} : m \in 1..n}

\* the strings and nested arrays of m nodes
TreesOf(m) ==
    (IF m = 1 THEN LeafPatterns ELSE {}) \cup {Arr(f) : f \in ForestsOf(m - 1)}

FindArgLists == UNION {ForestsOf(n) : n \in 0..MaxNodes}

InitFind ==
    /\ input \in [patterns : FindArgLists]
    /\ ROOT = RootR
    /\ disk = InitDisk
    /\ cache = EmptyCache
    /\ evalCount = 0
    /\ hist = NoHist
    /\ last = NoCall
    /\ pc = "start"

FindCall(patterns, g, f) ==
    [op |-> "find", args |-> patterns, ok |-> f.ok, ret |-> f.val, err |-> f.err,
     globArgs |-> IF g.ok THEN g.val ELSE None]

\* rooter.find(...input.patterns)
CallFind ==
    /\ pc = "start"
    /\ last' = FindCall(input.patterns, GlobArgs(ROOT, input.patterns),
                        Find(ROOT, input.patterns))
    /\ pc' = "found"
    /\ UNCHANGED <<ROOT, disk, cache, evalCount, hist, input>>

NextFind == CallFind

SpecFind == InitFind /\ [][NextFind]_vars

(***************************************************************************)
(* The rooter in use: calls of its six methods in any order, and files     *)
(* rewritten between calls                                                 *)
(***************************************************************************)
\* the fragment lists passed to resolve, require and execute
Routes ==
    { <<Str(<<"a">>)>>, <<Str(<<"/", "a">>)>>, <<Str(<<"/">>), Str(<<"b">>)>>,
      <<Str(<<"x">>)>>, <<NonStr>> }

\* the argument lists passed to find, findAndRequire and findAndExecute
PatternArgs ==
    { <<Str(<<"*">>)>>,
      <<Arr(<<Str(<<"/", "b">>), Arr(<<Str(<<"a">>)>>)>>), Str(<<"*">>)>>,
      <<Str(<<"x">>), Arr(<<Str(<<"d", "/", "*">>)>>)>>,
      <<Str(<<"a">>), NonStr>> }

\* The root is set once by the constructor, so what resolve and find compute
\* from the root alone is the same at every call: it is tabulated per input.
RouteTable == [route \in Routes |-> Resolve(RootR, route)]

GlobArgsTable == [patterns \in PatternArgs |-> GlobArgs(RootR, patterns)]

FindTable == [patterns \in PatternArgs |-> Find(RootR, patterns)]

Init ==
    /\ ROOT = RootR
    /\ disk \in [Files -> Contents]
    /\ cache = EmptyCache
    /\ evalCount = 0
    /\ hist = NoHist
    /\ last = NoCall
    /\ pc = "run"
    /\ input = <<>>

\* a file is rewritten on disk
Modify ==
    \E f \in Files, c \in Contents :
        /\ c # disk[f]
        /\ disk' = [disk EXCEPT ![f] = c]
        /\ hist' = [hist EXCEPT !.req[f] = 0]
        /\ last' = [op |-> "modify", path |-> f]
        /\ UNCHANGED <<ROOT, cache, evalCount, pc, input>>

DoResolve ==
    \E route \in Routes :
        /\ last' = [op |-> "resolve", args |-> route, ok |-> RouteTable[route].ok,
                    ret |-> RouteTable[route].val, err |-> RouteTable[route].err]
        /\ UNCHANGED <<ROOT, disk, cache, evalCount, hist, pc, input>>

DoFind ==
    \E patterns \in PatternArgs :
        /\ last' = FindCall(patterns, GlobArgsTable[patterns], FindTable[patterns])
        /\ UNCHANGED <<ROOT, disk, cache, evalCount, hist, pc, input>>

\* what a call on one path found when it started: the cache entry of the
\* path and the history of the file
PathSnapshot(p) ==
    IF p \in Files
    THEN [cache |-> cache[p], req |-> hist.req[p], exec |-> hist.exec[p],
          fresh |-> hist.fresh[p]]
    ELSE None

LoadCall(op, route, resolved, r) ==
    [op |-> op, args |-> route, path |-> IF resolved.ok THEN resolved.val ELSE None,
     ok |-> r.ok, ret |-> r.val, err |-> r.err, loads |-> r.loads,
     pre |-> IF resolved.ok THEN PathSnapshot(resolved.val) ELSE None]

DoRequire ==
    \E route \in Routes :
        LET p == RouteTable[route]
            r == LoadRoute(FALSE, cache, disk, evalCount, p)
        IN  /\ r.evalCount <= MaxEvals
            /\ cache' = r.cache
            /\ evalCount' = r.evalCount
            /\ hist' = IF r.ok
                       THEN [hist EXCEPT !.req[p.val] = r.val.id, !.fresh[p.val] = FALSE,
                                         !.exec[p.val] = 0]
                       ELSE hist
            /\ last' = LoadCall("require", route, p, r)
            /\ UNCHANGED <<ROOT, disk, pc, input>>

DoExecute ==
    \E route \in Routes :
        LET p == RouteTable[route]
            r == LoadRoute(TRUE, cache, disk, evalCount, p)
        IN  /\ r.evalCount <= MaxEvals
            /\ cache' = r.cache
            /\ evalCount' = r.evalCount
            /\ hist' = IF p.ok /\ p.val \in Files
                       THEN [hist EXCEPT !.exec[p.val] = IF r.ok THEN r.val.id ELSE 0,
                                         !.fresh[p.val] = TRUE]
                       ELSE hist
            /\ last' = LoadCall("execute", route, p, r)
            /\ UNCHANGED <<ROOT, disk, pc, input>>

FindLoadCall(op, patterns, f, r) ==
    [op |-> op, args |-> patterns, found |-> IF f.ok THEN f.val ELSE None,
     ok |-> r.ok, ret |-> r.val, err |-> r.err, loads |-> r.loads]

DoFindAndRequire ==
    \E patterns \in PatternArgs :
        LET f == FindTable[patterns]
            r == LoadFound(FALSE, cache, disk, evalCount, f)
        IN  /\ r.evalCount <= MaxEvals
            /\ cache' = r.cache
            /\ evalCount' = r.evalCount
            /\ last' = FindLoadCall("findAndRequire", patterns, f, r)
            /\ UNCHANGED <<ROOT, disk, hist, pc, input>>

\* the uncached loads of a findAndExecute call, as the history records them:
\* the value loaded for each file of a call that returned, no value for the
\* files a call that threw went through
ExecHistory(h, r, found) ==
    LET touched(f) == \E i \in DOMAIN r.loads : r.loads[i] = f IN
    [h EXCEPT
        !.exec = [f \in Files |->
                    IF ~touched(f) THEN h.exec[f]
                    ELSE IF r.ok
                         THEN r.val[CHOOSE i \in DOMAIN found : found[i] = f].id
                         ELSE 0],
        !.fresh = [f \in Files |-> h.fresh[f] \/ touched(f)]]

DoFindAndExecute ==
    \E patterns \in PatternArgs :
        LET f == FindTable[patterns]
            r == LoadFound(TRUE, cache, disk, evalCount, f)
        IN  /\ r.evalCount <= MaxEvals
            /\ cache' = r.cache
            /\ evalCount' = r.evalCount
            /\ hist' = IF f.ok THEN ExecHistory(hist, r, f.val) ELSE hist
            /\ last' = FindLoadCall("findAndExecute", patterns, f, r)
            /\ UNCHANGED <<ROOT, disk, pc, input>>

Next ==
    \/ Modify
    \/ DoResolve
    \/ DoFind
    \/ DoRequire
    \/ DoExecute
    \/ DoFindAndRequire
    \/ DoFindAndExecute

Spec == Init /\ [][Next]_vars

(***************************************************************************)
(* Properties                                                              *)
(***************************************************************************)
AllStrings(fragments) == \A i \in DOMAIN fragments : fragments[i].isStr

RECURSIVE AllSegments(_)
\* the segments of every fragment of a list of strings, in order
AllSegments(fragments) ==
    IF fragments = <<>> THEN <<>>
    ELSE Segments(Head(fragments).chars) \o AllSegments(Tail(fragments))

\* path.join(root, first fragment without its leading separator, the rest):
\* the path the contract of resolve describes
JoinedUnderRoot(root, fragments) ==
    AbsPath(NormalizeSegs(
        Segments(root)
        \o AllSegments(<<Str(StripLeadingSlash(Head(fragments).chars))>> \o Tail(fragments)),
        <<>>))

\* C1: for every root and every non-empty list of string fragments, resolve
\* returns the root joined with all the fragments in order, the leading
\* separator of the first fragment stripped; every fragment contributes.
C1_ResolveJoinsEveryFragment ==
    (pc = "resolved" /\ input.fragments # <<>> /\ AllStrings(input.fragments))
        => (last.ok /\ last.ret = JoinedUnderRoot(ROOT, input.fragments))

\* C2: resolve is idempotent: resolve(p), p the result of resolve(F), is p.
C2_ResolveIdempotent ==
    pc = "again" => (last.ok /\ last.ret = last.args[1].chars)

\* C2 as amended: resolve(p), p the result of resolve(F), is p put below the
\* root again (the root's segments followed by p's segments); it is p exactly
\* when the root is the file system root.
C2_ResolveAgainReRoots ==
    pc = "again" =>
        LET p == last.args[1].chars IN
        /\ last.ok
        /\ last.ret = AbsPath(Segments(ROOT) \o Segments(p))
        /\ (last.ret = p) <=> (ROOT = <<"/">>)

C2_Witness ==
    /\ pc = "again"
    /\ last.ok
    /\ ROOT # <<"/">>
    /\ Len(input.fragments) > 1
    /\ last.ret # last.args[1].chars

\* C9: resolve fails only on malformed input types: a call whose fragments
\* are all strings, however many, returns a path, and a call with a fragment
\* that is not a string, at any position, fails with the invalid-argument
\* error (a TypeError) and returns no path.
C9_ResolveFailsExactlyOnNonStrings ==
    pc = "resolved" =>
        /\ AllStrings(input.fragments) => last.ok
        /\ ~AllStrings(input.fragments) => (~last.ok /\ last.err = "TypeError")

\* C3: two require calls whose fragments resolve to the same path, on a file
\* not rewritten between them, return the identical cached value (the second
\* call evaluates nothing), whatever other rooter calls ran between the two.
C3_RequireTwiceIdentical ==
    (last.op = "require" /\ last.ok /\ last.pre.req # 0)
        => (last.ret.id = last.pre.req /\ last.loads = <<>>)

\* C3 as amended: the same, provided no uncached load (execute or
\* findAndExecute) of that path ran between the two require calls.
C3_RequireTwiceIdenticalUnlessFresh ==
    (last.op = "require" /\ last.ok /\ last.pre.req # 0 /\ ~last.pre.fresh)
        => (last.ret.id = last.pre.req /\ last.ret = last.pre.cache /\ last.loads = <<>>)

C3_Witness ==
    /\ last.op = "require"
    /\ last.ok
    /\ last.pre.req # 0
    /\ ~last.pre.fresh
    /\ last.ret.id = last.pre.req
    /\ last.ret.id < evalCount

\* C4: every uncached load evaluates the file anew from its content at the
\* time of the call, whatever the module cache holds for the path: the value
\* returned is a new one (not the cached one, not the one an earlier execute
\* returned) and it reflects the content now on disk.
C4_ExecuteAlwaysEvaluates ==
    /\ (last.op = "execute" /\ last.ok) =>
            /\ last.ret = [content |-> disk[last.path], id |-> evalCount]
            /\ last.loads = <<last.path>>
            /\ last.pre.cache # None => last.ret.id > last.pre.cache.id
            /\ last.ret.id > last.pre.exec
    /\ (last.op = "findAndExecute" /\ last.ok) =>
            /\ last.loads = last.found
            /\ \A i \in DOMAIN last.found :
                  last.ret[i] = [content |-> disk[last.found[i]],
                                 id |-> evalCount - Len(last.found) + i]

C4_Witness ==
    /\ last.op = "execute"
    /\ last.ok
    /\ last.pre.cache # None
    /\ last.pre.exec = last.pre.cache.id
    /\ last.pre.cache.content # last.ret.content

\* C5: when every load succeeds, findAndRequire and findAndExecute return a
\* list as long as find's, whose i-th element is what the loader (cached,
\* resp. uncached) gives for the i-th path found, the files being loaded one
\* after the other in that order.
C5_FindAndLoadMapsInOrder ==
    [][(last'.op \in {"findAndRequire", "findAndExecute"} /\ last'.ok) =>
        LET found == FindTable[last'.args].val
            evaluated(i) == last'.op = "findAndExecute" \/ cache[found[i]] = None
            evaluatedUpTo(i) == Cardinality({j \in 1..i : evaluated(j)})
        IN  /\ last'.found = found
            /\ Len(last'.ret) = Len(found)
            /\ \A i \in DOMAIN found :
                  last'.ret[i] = IF evaluated(i)
                                 THEN [content |-> disk[found[i]],
                                       id |-> evalCount + evaluatedUpTo(i)]
                                 ELSE cache[found[i]]
            /\ Len(last'.loads) = evaluatedUpTo(Len(found))
            /\ \A i \in DOMAIN found :
                  evaluated(i) => last'.loads[evaluatedUpTo(i)] = found[i]
    ]_vars

C5_Witness ==
    /\ last.op = "findAndRequire"
    /\ last.ok
    /\ Len(last.ret) = 2
    /\ last.loads = <<last.found[2]>>
    /\ last.ret[1].content # last.ret[2].content

\* C6: if the load of a matched file fails during findAndRequire or
\* findAndExecute, the call stops at that file: it raises the error of that
\* file's evaluation (the module's own throw: the load error), returns no
\* list, and loads none of the files matched after it.
C6_FindAndLoadAbortsOnFailure ==
    [][(last'.op \in {"findAndRequire", "findAndExecute"} /\ last'.found # None) =>
        LET found == last'.found
            evaluated(i) == last'.op = "findAndExecute" \/ cache[found[i]] = None
            fails(i) == evaluated(i) /\ disk[found[i]] = "throws"
        IN  (\E i \in DOMAIN found : fails(i)) =>
                LET k == CHOOSE i \in DOMAIN found :
                             fails(i) /\ \A j \in 1..(i - 1) : ~fails(j)
                IN  /\ ~last'.ok
                    /\ last'.ret = None
                    /\ last'.err = [kind |-> "ModuleThrew", file |-> found[k]]
                    /\ evalCount' = evalCount + Cardinality({j \in 1..k : evaluated(j)})
                    /\ \A j \in (k + 1)..Len(found) :
                          /\ \A l \in DOMAIN last'.loads : last'.loads[l] # found[j]
                          /\ cache'[found[j]] = cache[found[j]]
    ]_vars

C6_Witness ==
    /\ last.op \in {"findAndRequire", "findAndExecute"}
    /\ ~last.ok
    /\ last.err.kind = "ModuleThrew"
    /\ Len(last.found) = 2
    /\ last.err.file = last.found[1]
    /\ disk[last.found[2]] # "throws"

RECURSIVE OpenLeftmostArray(_)
\* the list with its leftmost array replaced by the elements of that array,
\* again and again until no array is left
OpenLeftmostArray(items) ==
    IF \E i \in DOMAIN items : IsArr(items[i])
    THEN LET i == CHOOSE i \in DOMAIN items :
                      IsArr(items[i]) /\ \A j \in 1..(i - 1) : ~IsArr(items[j])
         IN  OpenLeftmostArray(SubSeq(items, 1, i - 1) \o items[i].items
                               \o SubSeq(items, i + 1, Len(items)))
    ELSE items

\* C7: what find hands to the glob matcher is the depth-first, left-to-right
\* flattening of its arguments, each pattern string replaced by
\* resolve(pattern): same order, same number of elements.
C7_FindHandsFlattenedResolvedPatterns ==
    pc = "found" =>
        LET leaves == OpenLeftmostArray(input.patterns) IN
        /\ last.ok
        /\ Len(last.globArgs) = Len(leaves)
        /\ \A i \in DOMAIN leaves :
              last.globArgs[i] = Resolve(ROOT, <<leaves[i]>>).val

C7_Witness ==
    /\ pc = "found"
    /\ Len(last.globArgs) = 2
    /\ last.globArgs[1] # last.globArgs[2]
    /\ \E i \in DOMAIN input.patterns :
          /\ IsArr(input.patterns[i])
          /\ \E j \in DOMAIN input.patterns[i].items :
                /\ IsArr(input.patterns[i].items[j])
                /\ input.patterns[i].items[j].items # <<>>

\* no file matches any of the patterns of the argument list
MatchesNothing(root, patterns) ==
    \A i \in DOMAIN patterns : \A f \in Files :
        ~Matches(Resolve(root, <<patterns[i]>>).val, f)

\* the argument lists of strings of which no pattern matches a file
UnmatchedArgs ==
    {a \in PatternArgs : AllStrings(Flatten(a)) /\ MatchesNothing(RootR, Flatten(a))}

\* C8: find on patterns that match no file (patterns under a directory that
\* does not exist included) returns the empty list and raises nothing, and so
\* findAndRequire and findAndExecute return the empty list and load nothing.
C8_NoMatchGivesEmptyList ==
    [][(/\ last'.op \in {"find", "findAndRequire", "findAndExecute"}
        /\ last'.args \in UnmatchedArgs) =>
            /\ last'.ok
            /\ last'.ret = <<>>
            /\ cache' = cache
            /\ evalCount' = evalCount
    ]_vars

C8_Witness ==
    /\ last.op = "findAndExecute"
    /\ last.ok
    /\ last.ret = <<>>
    /\ last.args \in UnmatchedArgs
    /\ evalCount > 0

\* C10: an uncached load refreshes the shared cache entry: once execute or
\* findAndExecute has loaded path p, the cache entry of p is the value that
\* call returned, and the next require resolving to p returns that value
\* without evaluating the file, not the value an earlier require returned.
C10_ExecuteRefreshesCacheEntry ==
    /\ (last.op = "execute" /\ last.ok) => cache[last.path] = last.ret
    /\ (last.op = "findAndExecute" /\ last.ok) =>
            \A i \in DOMAIN last.found : cache[last.found[i]] = last.ret[i]
    /\ (last.op = "require" /\ last.ok /\ last.pre.exec # 0) =>
            /\ last.ret.id = last.pre.exec
            /\ last.ret = last.pre.cache
            /\ last.loads = <<>>
            /\ last.pre.req # 0 => last.ret.id > last.pre.req

C10_Witness ==
    /\ last.op = "require"
    /\ last.ok
    /\ last.pre.exec # 0
    /\ last.pre.req # 0
    /\ last.ret.id = last.pre.exec

====
